---- MODULE Spec2Model ----
(***************************************************************************)
(* Model of src/api/expenses.js: an in-memory expense list, the validator  *)
(* validateExpense and the request handler.                                *)
(*                                                                         *)
(* JavaScript values are tagged records [t, n, s]:                         *)
(*   t  the typeof-like tag ("undefined", "null", "number", "string",      *)
(*      "boolean"); reading a key that is absent from an object yields the *)
(*      value undefined, as in JavaScript;                                 *)
(*   n  a number in hundredths (Num(1575) is 15.75), or 0/1 for a boolean; *)
(*   s  a string as the sequence of its characters.                        *)
(* Request bodies are what the host's body parser hands over as req.body:  *)
(* nothing, a JSON value, or a raw string.  JSON has no NaN literal, so    *)
(* every number is an ordinary number.                                     *)
(***************************************************************************)
EXTENDS Integers, Sequences, FiniteSets, TLC

VARIABLES expenses, nextId, req, sent, fault, created, lastGet,
          cand, verdict

vars == <<expenses, nextId, req, sent, fault, created, lastGet,
          cand, verdict>>

storeVars == <<expenses, nextId, req, sent, fault, created, lastGet>>

validatorVars == <<cand, verdict>>

(* Largest number of successful POSTs explored. *)
MaxPosts == 2

----------------------------------------------------------------------------
(* JavaScript values *)

Undefined == [t |-> "undefined", n |-> 0, s |-> <<>>]

Null == [t |-> "null", n |-> 0, s |-> <<>>]

Num(h) == [t |-> "number", n |-> h, s |-> <<>>]

Str(cs) == [t |-> "string", n |-> 0, s |-> cs]

Bool(b) == [t |-> "boolean", n |-> IF b THEN 1 ELSE 0, s |-> <<>>]

----------------------------------------------------------------------------
(* String.prototype.trim *)

WhiteSpace == {" ", "\t", "\n"}

RECURSIVE TrimStart(_)
TrimStart(cs) ==
  IF cs = <<>> THEN <<>>
  ELSE IF Head(cs) \in WhiteSpace THEN TrimStart(Tail(cs))
  ELSE cs

RECURSIVE TrimEnd(_)
TrimEnd(cs) ==
  IF cs = <<>> THEN <<>>
  ELSE IF cs[Len(cs)] \in WhiteSpace THEN TrimEnd(SubSeq(cs, 1, Len(cs) - 1))
  ELSE cs

trim(cs) == TrimEnd(TrimStart(cs))

----------------------------------------------------------------------------
(* Date: time values are [valid, day, ms], day counted from 1970-01-01 and *)
(* ms the millisecond within the day; valid = FALSE is the NaN time value. *)

MsPerDay == 86400000

NaNTime == [valid |-> FALSE, day |-> 0, ms |-> 0]

Time(d, m) == [valid |-> TRUE, day |-> d, ms |-> m]

Digits == <<"0", "1", "2", "3", "4", "5", "6", "7", "8", "9">>

IsDigit(c) == \E i \in 1..10 : Digits[i] = c

DigitVal(c) == (CHOOSE i \in 1..10 : Digits[i] = c) - 1

AllDigits(cs) == \A i \in 1..Len(cs) : IsDigit(cs[i])

RECURSIVE ToInt(_)
ToInt(cs) ==
  IF cs = <<>> THEN 0
  ELSE 10 * ToInt(SubSeq(cs, 1, Len(cs) - 1)) + DigitVal(cs[Len(cs)])

(* MakeDay: days from 1970-01-01 to the civil date y-m-d. *)
DaysFromCivil(y, m, d) ==
  LET yy  == IF m <= 2 THEN y - 1 ELSE y
      era == yy \div 400
      yoe == yy - era * 400
      mp  == IF m > 2 THEN m - 3 ELSE m + 9
      doy == (153 * mp + 2) \div 5 + d - 1
      doe == yoe * 365 + yoe \div 4 - yoe \div 100 + doy
  IN  era * 146097 + doe - 719468

(* YearFromTime, MonthFromTime, DateFromTime. *)
CivilFromDays(z) ==
  LET zz  == z + 719468
      era == zz \div 146097
      doe == zz - era * 146097
      yoe == (doe - doe \div 1460 + doe \div 36524 - doe \div 146096) \div 365
      doy == doe - (365 * yoe + yoe \div 4 - yoe \div 100)
      mp  == (5 * doy + 2) \div 153
      d   == doy - (153 * mp + 2) \div 5 + 1
      m   == IF mp < 10 THEN mp + 3 ELSE mp - 9
      y   == yoe + era * 400 + (IF m <= 2 THEN 1 ELSE 0)
  IN  [year |-> y, month |-> m, date |-> d]

(* The date part "YYYY-MM-DD" of the date-time string format. *)
ParseDatePart(cs) ==
  IF /\ Len(cs) = 10
     /\ cs[5] = "-" /\ cs[8] = "-"
     /\ AllDigits(SubSeq(cs, 1, 4))
     /\ AllDigits(SubSeq(cs, 6, 7))
     /\ AllDigits(SubSeq(cs, 9, 10))
  THEN LET y == ToInt(SubSeq(cs, 1, 4))
           m == ToInt(SubSeq(cs, 6, 7))
           d == ToInt(SubSeq(cs, 9, 10))
       IN  IF m \in 1..12 /\ d \in 1..31
           THEN Time(DaysFromCivil(y, m, d), 0)
           ELSE NaNTime
  ELSE NaNTime

(* The time part "THH:mm:ss.sssZ" of the date-time string format. *)
ParseTimePart(cs) ==
  IF /\ Len(cs) = 14
     /\ cs[1] = "T" /\ cs[4] = ":" /\ cs[7] = ":" /\ cs[10] = "."
     /\ cs[14] = "Z"
     /\ AllDigits(SubSeq(cs, 2, 3))
     /\ AllDigits(SubSeq(cs, 5, 6))
     /\ AllDigits(SubSeq(cs, 8, 9))
     /\ AllDigits(SubSeq(cs, 11, 13))
  THEN LET h  == ToInt(SubSeq(cs, 2, 3))
           mi == ToInt(SubSeq(cs, 5, 6))
           sc == ToInt(SubSeq(cs, 8, 9))
           ms == ToInt(SubSeq(cs, 11, 13))
       IN  IF h \in 0..23 /\ mi \in 0..59 /\ sc \in 0..59
           THEN Time(0, ((h * 60 + mi) * 60 + sc) * 1000 + ms)
           ELSE NaNTime
  ELSE NaNTime

(* Date.parse on the two shapes used here: the date-only form (taken as    *)
(* UTC midnight) and the full UTC form that toISOString produces.  Every   *)
(* other string of the input sets is one that yields NaN.                  *)
DateParse(cs) ==
  IF Len(cs) = 10 THEN ParseDatePart(cs)
  ELSE IF Len(cs) = 24
  THEN LET dp == ParseDatePart(SubSeq(cs, 1, 10))
           tp == ParseTimePart(SubSeq(cs, 11, 24))
       IN  IF dp.valid /\ tp.valid THEN Time(dp.day, tp.ms) ELSE NaNTime
  ELSE NaNTime

(* new Date(v).getTime(): a string is parsed, anything else is converted   *)
(* to a number of milliseconds (null and false to 0, true to 1) and        *)
(* truncated to an integer; undefined converts to NaN.                     *)
NewDate(v) ==
  IF v.t = "string" THEN DateParse(v.s)
  ELSE IF v.t = "undefined" THEN NaNTime
  ELSE IF v.t = "number"
  THEN LET ms == IF v.n >= 0 THEN v.n \div 100 ELSE -((-v.n) \div 100)
       IN  Time(ms \div MsPerDay, ms % MsPerDay)
  ELSE Time(0, v.n)

(* isNaN(new Date(date).getTime()) *)
IsNaNTime(tv) == ~tv.valid

Pad(n, w) ==
  [i \in 1..w |->
     LET p == w - i
         pow == IF p = 0 THEN 1 ELSE IF p = 1 THEN 10 ELSE IF p = 2 THEN 100
                ELSE 1000
     IN  Digits[((n \div pow) % 10) + 1]]

(* Date.prototype.toISOString for years 0000..9999. *)
toISOString(tv) ==
  LET c  == CivilFromDays(tv.day)
      h  == tv.ms \div 3600000
      mi == (tv.ms \div 60000) % 60
      sc == (tv.ms \div 1000) % 60
      ms == tv.ms % 1000
  IN  Pad(c.year, 4) \o <<"-">> \o Pad(c.month, 2) \o <<"-">> \o Pad(c.date, 2)
      \o <<"T">> \o Pad(h, 2) \o <<":">> \o Pad(mi, 2) \o <<":">> \o Pad(sc, 2)
      \o <<".">> \o Pad(ms, 3) \o <<"Z">>

----------------------------------------------------------------------------
(* Request bodies: req.body as the handler receives it.  kind is the sort  *)
(* of value; an object carries the values of the four keys the validator   *)
(* reads (undefined for an absent key) and the number of its other keys.   *)

RequiredKeys == {"amount", "description", "category", "date"}

Body(k, num, str, a, d, c, dt, x) ==
  [kind |-> k, n |-> num, s |-> str,
   amount |-> a, description |-> d, category |-> c, date |-> dt, extra |-> x]

Primitive(k, num, str) ==
  Body(k, num, str, Undefined, Undefined, Undefined, Undefined, 0)

NoBody == Primitive("undefined", 0, <<>>)

NullBody == Primitive("null", 0, <<>>)

Object(a, d, c, dt, x) == Body("object", 0, <<>>, a, d, c, dt, x)


(* Variant: newExpense === undefined in place of !newExpense. *)
BodyFalsy_UndefinedOnly(b) == b.kind = "undefined"

(* !newExpense *)
BodyFalsy(b) ==
  \/ b.kind \in {"undefined", "null"}
  \/ b.kind = "number" /\ b.n = 0
  \/ b.kind = "string" /\ b.s = <<>>
  \/ b.kind = "boolean" /\ b.n = 0

(* Object.keys and destructuring throw a TypeError on undefined and null. *)
NotObjectCoercible(b) == b.kind \in {"undefined", "null"}

(* Object.keys(newExpense).length: own enumerable keys; the indices of a   *)
(* string or an array, none for a number or a boolean.                     *)
ObjectKeysLength(b) ==
  IF b.kind = "object"
  THEN Cardinality({k \in RequiredKeys : b[k].t # "undefined"}) + b.extra
  ELSE IF b.kind = "string" THEN Len(b.s)
  ELSE IF b.kind = "array" THEN b.n
  ELSE 0

----------------------------------------------------------------------------
(* validateExpense *)

MissingFields ==
  "Missing required fields: 'amount', 'description', 'category', and 'date' are required."

InvalidAmount == "'amount' must be a positive number."

InvalidDescription == "'description' must be a non-empty string."

InvalidCategory == "'category' must be a non-empty string."

InvalidDate == "'date' must be a valid date string (e.g., ISO 8601 format)."

(* The null that validateExpense returns for a valid body. *)
NoError == "null"

(* Outcome of a call that throws instead of returning. *)
TypeError == "TypeError"


(* Variant: !amount in place of amount === undefined. *)
IsAbsent_Falsy(v) ==
  \/ v.t \in {"undefined", "null"}
  \/ v.t \in {"number", "boolean"} /\ v.n = 0
  \/ v.t = "string" /\ v.s = <<>>

(* amount === undefined, description === undefined, ... *)
IsAbsent(v) == v.t = "undefined"


(* Variant: amount < 0 in place of amount <= 0. *)
BadAmount_AllowsZero(v) == v.t # "number" \/ v.n < 0

(* typeof amount !== 'number' || amount <= 0 *)
BadAmount(v) == v.t # "number" \/ v.n <= 0

(* typeof x !== 'string' || x.trim().length === 0 *)
BadText(v) == v.t # "string" \/ Len(trim(v.s)) = 0

(* isNaN(new Date(date).getTime()) *)
BadDate(v) == IsNaNTime(NewDate(v))


(* Variant: the description is checked before the amount. *)
validateExpense_DescriptionFirst(body) ==
  IF NotObjectCoercible(body) THEN TypeError
  ELSE IF \/ IsAbsent(body.amount) \/ IsAbsent(body.description)
          \/ IsAbsent(body.category) \/ IsAbsent(body.date)
  THEN MissingFields
  ELSE IF BadText(body.description) THEN InvalidDescription
  ELSE IF BadAmount(body.amount) THEN InvalidAmount
  ELSE IF BadText(body.category) THEN InvalidCategory
  ELSE IF BadDate(body.date) THEN InvalidDate
  ELSE NoError

validateExpense(body) ==
  IF NotObjectCoercible(body) THEN TypeError
  ELSE IF \/ IsAbsent(body.amount) \/ IsAbsent(body.description)
          \/ IsAbsent(body.category) \/ IsAbsent(body.date)
  THEN MissingFields
  ELSE IF BadAmount(body.amount) THEN InvalidAmount
  ELSE IF BadText(body.description) THEN InvalidDescription
  ELSE IF BadText(body.category) THEN InvalidCategory
  ELSE IF BadDate(body.date) THEN InvalidDate
  ELSE NoError

----------------------------------------------------------------------------
(* The store and the handler *)

Expense(i, a, d, c, dt) ==
  [id |-> i, amount |-> a, description |-> d, category |-> c, date |-> dt]

Groceries == <<"G", "r", "o", "c", "e", "r", "i", "e", "s">>

CoffeeAndPastry == <<"C", "o", "f", "f", "e", "e", " ", "&", " ", "P", "a", "s", "t", "r", "y">>

Food == <<"F", "o", "o", "d">>

Coffee == <<"C", "o", "f", "f", "e", "e">>


(* Variant: the second seed record carries the id 3. *)
SeedExpenses_IdThree(now, later) ==
  << Expense(1, Num(5000), Str(Groceries), Str(Food), toISOString(now)),
     Expense(3, Num(1575), Str(CoffeeAndPastry), Str(Coffee),
             toISOString(Time(later.day - 1, later.ms))) >>

(* const expenses = [...]: the two seed records; now is the clock at load  *)
(* time and later the clock when the second record is built, whose date is *)
(* Date.now() - 86400000, the same time of day one day earlier.            *)
SeedExpenses(now, later) ==
  << Expense(1, Num(5000), Str(Groceries), Str(Food), toISOString(now)),
     Expense(2, Num(1575), Str(CoffeeAndPastry), Str(Coffee),
             toISOString(Time(later.day - 1, later.ms))) >>

(* let nextId = 3 *)
InitialNextId == 3

(* Responses: status, whether .end() or .json() closed it, and the JSON    *)
(* payload (keys names the keys present; error is the pieces of the error  *)
(* string; data holds the record list, or the one created record).         *)
Response(st, k, ks, ok, err, msg, dat, cnt) ==
  [status |-> st, kind |-> k, keys |-> ks, success |-> ok, error |-> err,
   message |-> msg, data |-> dat, count |-> cnt]

EndResponse(st) == Response(st, "end", {}, FALSE, <<>>, "", <<>>, 0)

ErrorResponse(st, err) ==
  Response(st, "json", {"success", "error"}, FALSE, err, "", <<>>, 0)

ListResponse(exps) ==
  Response(200, "json", {"success", "data", "count"}, TRUE, <<>>, "",
           exps, Len(exps))

CreatedResponse(e) ==
  Response(201, "json", {"success", "message", "data"}, TRUE, <<>>,
           "Expense added successfully.", <<e>>, 0)

EmptyBody ==
  "Invalid or empty JSON body. Please ensure your Content-Type is application/json."

(* `Method ${req.method} Not Allowed` *)
MethodNotAllowed(method) == <<"Method ", method, " Not Allowed">>

(* What one call of handler does: the responses it sends, whether it threw *)
(* and the store it leaves.                                                *)
Outcome(rs, th, exps, nid) ==
  [sent |-> rs, fault |-> th, expenses |-> exps, nextId |-> nid]


(* Variant: the counter is read but not advanced. *)
PostIncrement_Stuck(nid) == nid

(* nextId++ : the value of the counter after the post-increment. *)
PostIncrement(nid) == nid + 1


(* Variant: unshift instead of push. *)
push_Front(exps, e) == <<e>> \o exps

(* expenses.push(expenseToAdd) *)
push(exps, e) == Append(exps, e)


(* Variant: the description is stored trimmed. *)
expenseToAdd_Trimmed(nid, body) ==
  Expense(nid, body.amount, Str(trim(body.description.s)), body.category,
          toISOString(NewDate(body.date)))

(* The expenseToAdd literal; the id is the counter's value before the      *)
(* increment.                                                              *)
expenseToAdd(nid, body) ==
  Expense(nid, body.amount, body.description, body.category,
          toISOString(NewDate(body.date)))


(* Variant: the id is taken from the counter before the body is judged. *)
Reject_ConsumesId(err, exps, nid) ==
  Outcome(<<ErrorResponse(400, <<err>>)>>, FALSE, exps, nid + 1)

(* return res.status(400).json({success: false, error}) *)
Reject(err, exps, nid) == Outcome(<<ErrorResponse(400, <<err>>)>>, FALSE, exps, nid)

(* if (req.method === 'OPTIONS') { res.status(200).end(); return; } *)
Preflight(exps, nid) == Outcome(<<EndResponse(200)>>, FALSE, exps, nid)


(* Variant: the list is reversed in place before it is returned. *)
ListAll_Reversing(exps, nid) ==
  LET rev == [i \in 1..Len(exps) |-> exps[Len(exps) + 1 - i]]
  IN  Outcome(<<ListResponse(rev)>>, FALSE, rev, nid)

(* if (req.method === 'GET') return res.status(200).json({...}) *)
ListAll(exps, nid) == Outcome(<<ListResponse(exps)>>, FALSE, exps, nid)

(* if (validationError) *)
IsError(v) == v # NoError

(* Step 3 of the POST branch. new Date(...).toISOString() throws a         *)
(* RangeError on the NaN time value, after nextId++ has been evaluated.    *)
AddExpense(body, exps, nid) ==
  IF IsNaNTime(NewDate(body.date))
  THEN Outcome(<<>>, TRUE, exps, PostIncrement(nid))
  ELSE LET e == expenseToAdd(nid, body)
       IN  Outcome(<<CreatedResponse(e)>>, FALSE, push(exps, e),
                   PostIncrement(nid))

handler(method, body, exps, nid) ==
  IF method = "OPTIONS" THEN Preflight(exps, nid)
  ELSE IF method = "GET" THEN ListAll(exps, nid)
  ELSE IF method = "POST"
  THEN IF BodyFalsy(body) THEN Reject(EmptyBody, exps, nid)
       ELSE IF NotObjectCoercible(body) THEN Outcome(<<>>, TRUE, exps, nid)
       ELSE IF ObjectKeysLength(body) = 0 THEN Reject(EmptyBody, exps, nid)
       ELSE LET validationError == validateExpense(body)
            IN  IF validationError = TypeError
                THEN Outcome(<<>>, TRUE, exps, nid)
                ELSE IF IsError(validationError)
                THEN Reject(validationError, exps, nid)
                ELSE AddExpense(body, exps, nid)
  ELSE Outcome(<<ErrorResponse(405, MethodNotAllowed(method))>>, FALSE,
               exps, nid)

----------------------------------------------------------------------------
(* Inputs *)

Blank == <<" ", " ", " ">>

SpacedX == <<" ", "x", " ">>

Lunch == <<"L", "u", "n", "c", "h">>

DateOnly == <<"2", "0", "2", "4", "-", "0", "1", "-", "0", "1">>

DateFull == <<"2", "0", "0", "0", "-", "0", "2", "-", "2", "9", "T", "1", "2", ":", "3", "0", ":", "4", "5", ".", "6", "7", "8", "Z">>

BadMonth == <<"2", "0", "2", "4", "-", "1", "3", "-", "0", "1">>

Garbage == <<"g", "a", "r", "b", "a", "g", "e">>

(* Clock readings at load time, and how far the clock may have moved on    *)
(* between the two reads that build the seed records (milliseconds).       *)
StartTimes == {Time(20394, 45045678)}

ClockLag == {0, 1}

(* Bodies sent with POST: every combination of these values for the four   *)
(* keys (the combination with all four absent is the object {}), an object *)
(* with one unrelated key, and the non-object bodies.                      *)
AmountInputs == {Undefined, Num(0), Num(1250), Str(<<"5">>)}

DescriptionInputs == {Undefined, Str(Blank), Str(SpacedX)}

CategoryInputs == {Str(<<>>), Str(Food)}

DateInputs == {Undefined, Null, Str(DateOnly), Str(Garbage)}

NonObjectBodies ==
  {NoBody, NullBody, Primitive("number", 0, <<>>), Primitive("number", 500, <<>>),
   Primitive("string", 0, <<>>), Primitive("string", 0, Garbage),
   Primitive("boolean", 0, <<>>), Primitive("boolean", 1, <<>>),
   Primitive("array", 0, <<>>), Primitive("array", 2, <<>>)}

PostBodies ==
  {Object(a, d, c, dt, 0) : a \in AmountInputs, d \in DescriptionInputs,
                            c \in CategoryInputs, dt \in DateInputs}
  \cup {Object(Undefined, Undefined, Undefined, Undefined, 1)}
  \cup NonObjectBodies

(* Bodies sent with the other methods, which never read them. *)
IgnoredBodies == {NoBody, Object(Num(1250), Str(Lunch), Str(Food), Str(DateOnly), 0)}

OtherMethods == {"DELETE", "PUT"}

(* Candidates handed to validateExpense on its own. *)
AmountCandidates ==
  {Undefined, Null, Num(-500), Num(0), Num(1), Num(1250), Str(<<>>),
   Str(<<"5">>), Bool(FALSE), Bool(TRUE)}

TextCandidates ==
  {Undefined, Null, Num(0), Bool(FALSE), Str(<<>>), Str(Blank), Str(SpacedX),
   Str(Lunch)}

DateCandidates ==
  {Undefined, Null, Num(0), Num(-100), Bool(FALSE), Str(<<>>), Str(DateOnly),
   Str(DateFull), Str(BadMonth), Str(Garbage)}

Candidates ==
  {Object(a, d, c, dt, 0) : a \in AmountCandidates, d \in TextCandidates,
                            c \in TextCandidates, dt \in DateCandidates}
  \cup (NonObjectBodies \ {NoBody, NullBody})

----------------------------------------------------------------------------
(* The state machine *)

NoRequest == [method |-> "none", body |-> NoBody]

NoGet == [seen |-> FALSE, data |-> <<>>, count |-> 0, stale |-> FALSE,
          again |-> FALSE]

Pending == "pending"

Init ==
  /\ \E now \in StartTimes, lag \in ClockLag :
       expenses = SeedExpenses(now, Time(now.day, now.ms + lag))
  /\ nextId = InitialNextId
  /\ req = NoRequest
  /\ sent = <<>>
  /\ fault = FALSE
  /\ created = <<>>
  /\ lastGet = NoGet
  /\ cand = NoBody
  /\ verdict = Pending

IsCreated(rs) == Len(rs) = 1 /\ rs[1].status = 201

(* One request served from start to finish.  created records the records   *)
(* returned with status 201, in order; lastGet the payload of the latest   *)
(* GET, whether a POST has succeeded since (stale), and whether that GET   *)
(* followed an earlier GET with no successful POST between them (again).   *)
Serve(method, body) ==
  \E out \in {handler(method, body, expenses, nextId)} :
      /\ IsCreated(out.sent) => Len(created) < MaxPosts
      /\ expenses' = out.expenses
      /\ nextId' = out.nextId
      /\ req' = [method |-> method, body |-> body]
      /\ sent' = out.sent
      /\ fault' = out.fault
      /\ created' = IF IsCreated(out.sent)
                    THEN Append(created, out.sent[1].data[1])
                    ELSE created
      /\ lastGet' = IF method = "GET" /\ Len(out.sent) = 1
                    THEN [seen |-> TRUE, data |-> out.sent[1].data,
                          count |-> out.sent[1].count, stale |-> FALSE,
                          again |-> lastGet.seen /\ ~lastGet.stale]
                    ELSE IF IsCreated(out.sent) /\ lastGet.seen
                    THEN [lastGet EXCEPT !.stale = TRUE]
                    ELSE lastGet
      /\ UNCHANGED validatorVars

Options == \E b \in IgnoredBodies : Serve("OPTIONS", b)

Get == \E b \in IgnoredBodies : Serve("GET", b)

Post == \E b \in PostBodies : Serve("POST", b)

Other == \E m \in OtherMethods, b \in IgnoredBodies : Serve(m, b)

Next == Options \/ Get \/ Post \/ Other

Spec == Init /\ [][Next]_vars

(* The validator on its own: a candidate is drawn, then judged. *)
InitV ==
  /\ expenses = SeedExpenses(Time(20394, 45045678), Time(20394, 45045678))
  /\ nextId = InitialNextId
  /\ req = NoRequest
  /\ sent = <<>>
  /\ fault = FALSE
  /\ created = <<>>
  /\ lastGet = NoGet
  /\ cand \in Candidates
  /\ verdict = Pending

Validate ==
  /\ verdict = Pending
  /\ verdict' = validateExpense(cand)
  /\ UNCHANGED <<cand, storeVars>>

NextV == Validate

SpecV == InitV /\ [][NextV]_vars

----------------------------------------------------------------------------
(* Properties *)

RECURSIVE MaxId(_)
MaxId(exps) ==
  IF exps = <<>> THEN 0
  ELSE LET m == MaxId(Tail(exps))
       IN  IF Head(exps).id > m THEN Head(exps).id ELSE m

Answered(rs, st) == Len(rs) = 1 /\ rs[1].status = st

IsPrefix(p, q) == Len(p) <= Len(q) /\ SubSeq(q, 1, Len(p)) = p

(* C1: every POST answered 201 returns a record whose id is the largest id *)
(* in the store just before that POST plus 1, different from the id of     *)
(* every earlier created record; the first one returns id 3.               *)
C1_FreshId ==
  [][IsCreated(sent') =>
       /\ sent'[1].data[1].id = MaxId(expenses) + 1
       /\ \A i \in 1..Len(created) : created[i].id # sent'[1].data[1].id
       /\ created = <<>> => sent'[1].data[1].id = 3]_vars

C1_Witness ==
  /\ IsCreated(sent)
  /\ Len(created) = 2
  /\ created[1].id = 3
  /\ sent[1].data[1].id = 4

(* C2: a GET answers 200 with the two seed records (ids 1 and 2, amounts   *)
(* 50.00 and 15.75) followed by the created records in the order their     *)
(* POSTs succeeded, and count = 2 + N; and no step removes, reorders or    *)
(* changes a record already stored.                                        *)
C2_GetReturnsAll ==
  req.method = "GET" =>
    /\ Answered(sent, 200)
    /\ sent[1].keys = {"success", "data", "count"}
    /\ sent[1].success
    /\ Len(sent[1].data) = 2 + Len(created)
    /\ sent[1].data[1].id = 1 /\ sent[1].data[1].amount = Num(5000)
    /\ sent[1].data[1].description = Str(Groceries)
    /\ sent[1].data[2].id = 2 /\ sent[1].data[2].amount = Num(1575)
    /\ sent[1].data[2].description = Str(CoffeeAndPastry)
    /\ SubSeq(sent[1].data, 3, Len(sent[1].data)) = created
    /\ sent[1].count = 2 + Len(created)

C2_AppendOnly ==
  []C2_GetReturnsAll /\ [][IsPrefix(expenses, expenses')]_vars

C2_Witness ==
  /\ req.method = "GET"
  /\ Len(created) = 2
  /\ created[1] # created[2]
  /\ Len(sent[1].data) = 4

(* C3: a POST answered 400 leaves the expenses list and the next-id        *)
(* counter as they were before the request.                                *)
C3_RejectedPostNoChange ==
  [][(req'.method = "POST" /\ Answered(sent', 400)) =>
       (expenses' = expenses /\ nextId' = nextId)]_vars

C3_Witness ==
  /\ req.method = "POST"
  /\ Answered(sent, 400)
  /\ sent[1].error = <<InvalidDate>>
  /\ Len(created) = 1
  /\ nextId = 4

(* C4: a request whose method is not POST leaves the expenses list and the *)
(* next-id counter unchanged, and a GET that follows an earlier GET with   *)
(* no successful POST between them returns the same data and count.        *)
C4_ReadOnly ==
  /\ [][req'.method # "POST" => (expenses' = expenses /\ nextId' = nextId)]_vars
  /\ [][(req'.method = "GET" /\ lastGet.seen /\ ~lastGet.stale) =>
          /\ Len(sent') = 1
          /\ sent'[1].data = lastGet.data
          /\ sent'[1].count = lastGet.count]_vars

C4_Witness ==
  /\ req.method = "GET"
  /\ lastGet.again
  /\ Len(created) = 1

(* C5: validateExpense reports the error of the earliest check the         *)
(* candidate fails, in the order MissingFields, InvalidAmount,             *)
(* InvalidDescription, InvalidCategory, InvalidDate, and null exactly when *)
(* it fails none; amount 0 with a blank description gives InvalidAmount.   *)
CheckOrder ==
  <<MissingFields, InvalidAmount, InvalidDescription, InvalidCategory,
    InvalidDate>>

NonBlank(v) == v.t = "string" /\ \E i \in 1..Len(v.s) : v.s[i] \notin WhiteSpace

Fails(c) ==
  << \E k \in RequiredKeys : c[k] = Undefined,
     ~(c.amount.t = "number" /\ c.amount.n > 0),
     ~NonBlank(c.description),
     ~NonBlank(c.category),
     ~NewDate(c.date).valid >>

FirstFailure(c) ==
  IF \E i \in 1..5 : Fails(c)[i]
  THEN CheckOrder[CHOOSE i \in 1..5 :
                    Fails(c)[i] /\ \A j \in 1..(i - 1) : ~Fails(c)[j]]
  ELSE NoError

C5_FirstFailingCheck ==
  verdict # Pending =>
    /\ verdict = FirstFailure(cand)
    /\ (cand.amount = Num(0) /\ cand.description = Str(Blank)
          /\ cand.category # Undefined /\ cand.date # Undefined)
       => verdict = InvalidAmount

C5_Witness ==
  /\ verdict = InvalidAmount
  /\ cand.amount = Num(0)
  /\ cand.description = Str(Blank)
  /\ cand.date = Str(Garbage)

(* C6: when at least one of the keys amount, description, category, date   *)
(* is absent, validateExpense returns MissingFields whatever the other     *)
(* keys hold; when all four are present, even with the values 0, "",       *)
(* false or null, it does not return MissingFields.                        *)
C6_MissingFields ==
  verdict # Pending =>
    (verdict = MissingFields <=> \E k \in RequiredKeys : cand[k] = Undefined)

C6_Witness ==
  /\ verdict = InvalidDescription
  /\ cand.amount = Num(1250)
  /\ cand.description = Str(<<>>)
  /\ cand.category = Bool(FALSE)
  /\ cand.date = Null

Canonical(cs) ==
  /\ Len(cs) = 24
  /\ DateParse(cs).valid
  /\ toISOString(DateParse(cs)) = cs

C8_StoredRecordsValid ==
  \A i \in 1..Len(expenses) :
    /\ expenses[i].amount.t = "number" /\ expenses[i].amount.n > 0
    /\ NonBlank(expenses[i].description)
    /\ NonBlank(expenses[i].category)
    /\ Canonical(expenses[i].date)

C8_Witness ==
  /\ Len(expenses) = 4
  /\ expenses[3].date = toISOString(Time(0, 0))
  /\ expenses[4].date = toISOString(Time(19723, 0))

(* C9: the ids in the store are 1..length in insertion order (so pairwise  *)
(* distinct and strictly increasing) and the next-id counter is the        *)
(* number of stored records plus 1.                                        *)
C9_IdsDense ==
  /\ \A i \in 1..Len(expenses) : expenses[i].id = i
  /\ \A i, j \in 1..Len(expenses) : i < j => expenses[i].id < expenses[j].id
  /\ nextId = Len(expenses) + 1
  /\ nextId > MaxId(expenses)

C9_Witness == Len(expenses) = 4 /\ nextId = 5 /\ req.method = "POST"

(* C10: the record in a 201 response is the last element of the store, its *)
(* amount, description and category are the values submitted (a            *)
(* description " x " keeps its spaces), and its date is the canonical form *)
(* of the submitted date.                                                  *)
C10_StoredAsSubmitted ==
  IsCreated(sent) =>
    /\ sent[1].data[1] = expenses[Len(expenses)]
    /\ sent[1].data[1].amount = req.body.amount
    /\ sent[1].data[1].description = req.body.description
    /\ sent[1].data[1].category = req.body.category
    /\ Canonical(sent[1].data[1].date)
    /\ DateParse(sent[1].data[1].date) = NewDate(req.body.date)

C10_Witness ==
  /\ IsCreated(sent)
  /\ req.body.description = Str(SpacedX)
  /\ sent[1].data[1].description.s = <<" ", "x", " ">>
  /\ req.body.date = Str(DateOnly)
  /\ sent[1].data[1].date # DateOnly

====
